---- MODULE Spec2Model ----
(***************************************************************************)
(* phalerts: Alertmanager webhook -> Phabricator/Maniphest tasks.          *)
(*                                                                         *)
(* The model has three layers:                                             *)
(*   - the tracker (Phabricator), which phalerts reaches only through      *)
(*     phab.project.search, phab.maniphest.search and phab.maniphest.edit; *)
(*   - the functions of phalerts.py (find_project_phid, find_task,         *)
(*     create_task, update_task, process_task, alerts), each translated    *)
(*     from its code;                                                      *)
(*   - history variables that record what an invocation did, so that the   *)
(*     properties can talk about it.                                       *)
(*                                                                         *)
(* Strings that are searched (project names, task titles) are sequences of *)
(* words, so that the tracker's substring / full-text search is something  *)
(* else than equality.  "foobar-extra" is <<"foobar", "extra">>.           *)
(***************************************************************************)
EXTENDS Integers, Sequences, FiniteSets, TLC

\* ------------------------------------------------------------------ bounds

\* Number of process_task invocations in a run of Spec.
MaxRequests == 3

\* Number of process_task invocations in a run of SpecOps, where somebody else
\* (a human in the tracker's UI) closes tasks, and number of tasks closed.
MaxOpsRequests == 2
MaxCloses == 1

\* Number of POST /alerts requests in a run of SpecHttp.
MaxHttpRequests == 2

\* Under SpecRedeliver: how many deliveries, counted from the first, may carry
\* another description or have their tracker calls answered with an error.
MaxUnsettled == 2

\* The request threads: two are enough for every interleaving of two
\* invocations.  A new invocation takes the lowest free thread.
Procs == {1, 2}

\* ------------------------------------------------------------- input values

TX == <<"X">>
TXE == <<"X", "extra">>
Titles == {TX, TXE}
\* maniphest.search order="title": the titles in the tracker's ascending order.
TitleOrder == <<TX, TXE>>

\* An alert's labels are the values of its "instance" and "job" labels, in that
\* (dictsort) order; a value is its rank in the order of strings.
A1 == [labels |-> <<1, 2>>, status |-> "firing"]
A2 == [labels |-> <<2, 1>>, status |-> "firing"]
A3 == [labels |-> <<1, 3>>, status |-> "firing"]
A4 == [labels |-> <<3, 3>>, status |-> "resolved"]

\* The "alerts" lists of a webhook body.
AlertLists == { <<A1>>, <<A1, A3>>, <<A3, A1>>, <<A1, A2>>, <<A2, A1>>, <<A4, A1>> }

\* Rendered descriptions handed to process_task directly.
D1 == << <<1, 2>> >>
D2 == << <<1, 2>>, <<1, 3>> >>
Descriptions == {D1, D2}

FOOBAR == <<"foobar">>
FOOBAR_EXTRA == <<"foobar", "extra">>
\* Two names no project has: one the search finds nothing for, and one that is
\* part of another project's name, so that the search returns a candidate.
NOSUCH == <<"nosuch">>
EXTRA == <<"extra">>

\* The projects of the tracker (the shape of the test's PROJECT_SEARCH_RESULT,
\* plus a third project that is only ever named by its PHID).
TrackerProjects ==
    << [phid |-> "PHID-11", name |-> FOOBAR_EXTRA],
       [phid |-> "PHID-12", name |-> FOOBAR],
       [phid |-> "PHID-13", name |-> <<"other">>] >>

\* The projects and phids arguments of an invocation (?project=...&phid=...).
Groups(projects, ps) == [projects |-> projects, phids |-> ps]
NoGroups == Groups(<<>>, <<>>)

\* One call of process_task: its title, its description and its groups.
Input(title, description, g) == [title |-> title, description |-> description, groups |-> g]

\* The inputs a run draws from: each run is about one family of alert groups.
\*   titles:    two titles, one a full-text hit of the other's search;
\*   nested:    one title, group sets that contain one another;
\*   supersets: a task in {PHID-11, PHID-12} against the sets {}, {PHID-11},
\*              {PHID-11, PHID-12} and {PHID-11, PHID-13};
\*   names:     project names that resolve and one that does not, at each place.
Universes ==
    { [name |-> "titles",
       inputs |-> { Input(TX, D1, NoGroups), Input(TX, D2, NoGroups),
                    Input(TXE, D1, NoGroups) }],
      [name |-> "nested",
       inputs |-> { Input(TX, D1, NoGroups),
                    Input(TX, D1, Groups(<<>>, <<"PHID-12">>)),
                    Input(TX, D2, Groups(<<>>, <<"PHID-12">>)) }],
      [name |-> "supersets",
       inputs |-> { Input(TX, D1, NoGroups),
                    Input(TX, D1, Groups(<<>>, <<"PHID-11">>)),
                    Input(TX, D1, Groups(<<FOOBAR>>, <<"PHID-11">>)),
                    Input(TX, D1, Groups(<<>>, <<"PHID-11", "PHID-13">>)) }],
      [name |-> "names",
       inputs |-> { Input(TX, D1, Groups(<<FOOBAR>>, <<>>)),
                    Input(TX, D1, Groups(<<NOSUCH>>, <<>>)),
                    Input(TX, D1, Groups(<<FOOBAR, EXTRA>>, <<>>)),
                    Input(TX, D1, Groups(<<EXTRA, FOOBAR_EXTRA>>, <<>>)) }] }

\* ------------------------------------------------------------------ helpers

Range(s) == { s[i] : i \in 1..Len(s) }

Rev(s) == [ i \in 1..Len(s) |-> s[Len(s) + 1 - i] ]

\* q occurs in s as a contiguous run of words.
IsInfix(q, s) ==
    \E i \in 0..(Len(s) - Len(q)) : SubSeq(s, i + 1, i + Len(q)) = q

RECURSIVE Concat(_)
Concat(ss) == IF ss = <<>> THEN <<>> ELSE Head(ss) \o Concat(Tail(ss))

\* The two orders in which the tracker may list two candidates, and so on.
Perms(s) ==
    { p \in [1..Len(s) -> 1..Len(s)] : \A i, j \in 1..Len(s) : p[i] = p[j] => i = j }

\* ------------------------------------------------------------ the tracker

NoCursor == "null"
Cursors == {NoCursor, "100"}

\* A task's PHID; NoObject stands for "no such key" (no objectIdentifier, no
\* "object" in a response).
TaskPhid(n) == <<"PHID-TASK", n>>
NoObject == <<>>

NoTask == [id |-> 0, phid |-> NoObject, name |-> <<>>, desc |-> <<>>, status |-> "",
           projects |-> {}]

\* phab.project.search(constraints={name: ...}): a substring search.
ProjectSearchData(name) ==
    SelectSeq(TrackerProjects, LAMBDA p : IsInfix(name, p.name))

\* Variant: the search is not restricted to open tasks.
StatusesAny == {"open", "closed"}

\* statuses=["open"]: the statuses find_task asks for.
Statuses == {"open"}

\* phab.maniphest.search(constraints={query: 'title:"..."', statuses: [open],
\* projects: phids}, order="title"): full text, open tasks only; the tracker
\* may or may not narrow by project (prefilter); title ascending, newest first.
ManiphestSearchData(ts, title, phids, prefilter) ==
    LET hit(t) == /\ t.status \in Statuses
                  /\ IsInfix(title, t.name)
                  /\ (prefilter => Range(phids) \subseteq t.projects)
    IN Concat([ k \in 1..Len(TitleOrder) |->
                  Rev(SelectSeq(ts, LAMBDA t : hit(t) /\ t.name = TitleOrder[k])) ])

\* The value of the transaction of type ty, or default.
TxValue(transactions, ty, default) ==
    IF \E i \in 1..Len(transactions) : transactions[i].type = ty
    THEN transactions[CHOOSE i \in 1..Len(transactions) : transactions[i].type = ty].value
    ELSE default

\* phab.maniphest.edit without objectIdentifier: a new open task.
TrackerCreate(ts, transactions) ==
    LET n == Len(ts) + 1
    IN Append(ts, [id |-> n, phid |-> TaskPhid(n),
                   name |-> TxValue(transactions, "title", <<>>),
                   desc |-> TxValue(transactions, "description", <<>>),
                   status |-> "open",
                   projects |-> Range(TxValue(transactions, "projects.add", <<>>))])

\* phab.maniphest.edit with objectIdentifier: each transaction changes the
\* field of its type on that task, and nothing else changes.
TrackerUpdate(ts, phid, transactions) ==
    [ i \in 1..Len(ts) |->
        IF ts[i].phid = phid
        THEN [ts[i] EXCEPT !.name = TxValue(transactions, "title", @),
                           !.desc = TxValue(transactions, "description", @),
                           !.status = TxValue(transactions, "status", @),
                           !.projects = @ \cup
                               Range(TxValue(transactions, "projects.add", <<>>))]
        ELSE ts[i] ]

\* What phab.maniphest.edit may answer to n submitted transactions on object
\* phid: the full acknowledgement, an echo with no transaction in it (of an
\* edit the tracker dropped), or an empty response (the {} of
\* test_task_creation_failed).
FullResponse(n, phid) ==
    [kind |-> "full", object |-> phid, hasTransactions |-> TRUE, echoed |-> n]
FewResponse(phid) ==
    [kind |-> "few", object |-> phid, hasTransactions |-> TRUE, echoed |-> 0]
EmptyResponse ==
    [kind |-> "empty", object |-> NoObject, hasTransactions |-> FALSE, echoed |-> 0]

CreateResponses(n, phid) == { FullResponse(n, phid), EmptyResponse }
UpdateResponses(n, phid) == { FullResponse(n, phid), FewResponse(phid), EmptyResponse }

\* Whether the tracker may have applied (a) the write it answered with r: a
\* full acknowledgement is of an applied write, an echo of no transaction is
\* of a write that was dropped, and an empty response tells nothing.
MayApply(r, a) ==
    CASE r.kind = "full" -> a
      [] r.kind = "few" -> ~a
      [] OTHER -> TRUE

\* -------------------------------------------------- phalerts.py: functions

NoMsg == [text |-> "", name |-> <<>>, phid |-> NoObject]
Msg(text, name, phid) == [text |-> text, name |-> name, phid |-> phid]

Returned(v) == [raised |-> "", msg |-> NoMsg, value |-> v]
Raised(exc, m, v) == [raised |-> exc, msg |-> m, value |-> v]

\* Variant: the first project whose name contains the requested one.
FirstProjectContains(data, name) ==
    LET hits == SelectSeq(data, LAMBDA q : IsInfix(name, q.name))
    IN IF hits = <<>> THEN "" ELSE hits[1].phid

\* Variant: the first project the search returns, whatever its name.
FirstProjectAny(data, name) ==
    IF data = <<>> THEN "" ELSE Head(data).phid

\* for project in result["data"]: if project["fields"]["name"] == name: return
RECURSIVE FirstProject(_, _)
FirstProject(data, name) ==
    IF data = <<>> THEN ""
    ELSE IF Head(data).name = name THEN Head(data).phid
    ELSE FirstProject(Tail(data), name)

find_project_phid(result, name) ==
    IF result.after # NoCursor
    THEN Raised("Error",
                Msg("Unexpected 'after' cursor while searching for project", name, NoObject),
                "")
    ELSE IF FirstProject(result.data, name) # ""
    THEN Returned(FirstProject(result.data, name))
    ELSE Raised("Error", Msg("Could not find project", name, NoObject), "")

\* Variant: a title that contains the requested one is taken for it.
TitleContains(t, title) == IsInfix(title, t.name)

\* Variant: one of the required projects is enough.
HasAnyProject(t, phids) == phids = <<>> \/ Range(phids) \cap t.projects # {}

\* The two filters of find_task's loop.
TitleMatches(t, title) == t.name = title
HasProjects(t, phids) == Range(phids) \subseteq t.projects

\* Variant: the search result is never looked at.
find_task_none(result, title, phids) ==
    [raised |-> "", msg |-> NoMsg, value |-> NoTask]

\* Variant: the loop goes on after a match, so the last match is returned.
RECURSIVE LastTask(_, _, _)
LastTask(data, title, phids) ==
    IF data = <<>> THEN NoTask
    ELSE IF LastTask(Tail(data), title, phids) # NoTask
    THEN LastTask(Tail(data), title, phids)
    ELSE IF Head(data).name = title /\ Range(phids) \subseteq Head(data).projects
    THEN Head(data)
    ELSE NoTask

\* for task in result["data"]: ... continue ... return task  (None at the end)
RECURSIVE FirstTask(_, _, _)
FirstTask(data, title, phids) ==
    IF data = <<>> THEN NoTask
    ELSE IF ~TitleMatches(Head(data), title) THEN FirstTask(Tail(data), title, phids)
    ELSE IF ~HasProjects(Head(data), phids) THEN FirstTask(Tail(data), title, phids)
    ELSE Head(data)

\* Variant: the cursor is looked at only when the page holds no match.
find_task_match_first(result, title, phids) ==
    IF FirstTask(result.data, title, phids) # NoTask
    THEN Returned(FirstTask(result.data, title, phids))
    ELSE IF result.after # NoCursor
    THEN Raised("Error",
                Msg("Unexpected 'after' cursor while searching for task", title, NoObject),
                NoTask)
    ELSE Returned(NoTask)

find_task(result, title, phids) ==
    IF result.after # NoCursor
    THEN Raised("Error",
                Msg("Unexpected 'after' cursor while searching for task", title, NoObject),
                NoTask)
    ELSE Returned(FirstTask(result.data, title, phids))

\* Variant: projects.add is sent also for an empty list.
CreateTransactionsAlwaysProjects(title, description, phids) ==
    << [type |-> "title", value |-> title],
       [type |-> "description", value |-> description],
       [type |-> "projects.add", value |-> phids] >>

\* Variant: the new task is assigned to no project.
CreateTransactionsNoProjects(title, description, phids) ==
    << [type |-> "title", value |-> title],
       [type |-> "description", value |-> description] >>

\* create_task's transactions: projects.add only for a non-empty list.
CreateTransactions(title, description, phids) ==
    << [type |-> "title", value |-> title],
       [type |-> "description", value |-> description] >>
    \o (IF phids # <<>> THEN << [type |-> "projects.add", value |-> phids] >> ELSE <<>>)

\* Variant: the response to the create is not looked at.
create_task_unchecked(result) == Returned("Created")

\* if not result.get("object"): raise Error
create_task_result(result) ==
    IF result.object = NoObject
    THEN Raised("Error", Msg("Failed to create task", <<>>, NoObject), "")
    ELSE Returned("Created")

\* Variant: update_task submits no transaction.
UpdateTransactionsNone(description) == <<>>

\* Variant: the update resolves the task as well.
UpdateTransactionsResolve(description) ==
    << [type |-> "description", value |-> description],
       [type |-> "status", value |-> "resolved"] >>

\* Variant: the description is sent as a comment.
UpdateTransactionsComment(description) == << [type |-> "comment", value |-> description] >>

UpdateTransactions(description) == << [type |-> "description", value |-> description] >>

\* if len(result["transactions"]) < len(transactions): raise Error
\* (result["transactions"] of a response without that key is a KeyError).
update_task_result(result, transactions, phid) ==
    IF ~result.hasTransactions
    THEN Raised("KeyError", Msg("'transactions'", <<>>, NoObject), "")
    ELSE IF result.echoed < Len(transactions)
    THEN Raised("Error", Msg("Failed to apply all transactions for task", <<>>, phid), "")
    ELSE Returned("Updated")

\* Variant: a located task is always updated.
DecideAlwaysWrites(t, description) ==
    IF t = NoTask THEN "create" ELSE "update"

\* Variant: a located task is never updated.
DecideIgnoresDescription(t, description) ==
    IF t = NoTask THEN "create" ELSE "unchanged"

\* process_task's three-way branch on the located task.
Decide(t, description) ==
    IF t = NoTask THEN "create"
    ELSE IF t.desc = description THEN "unchanged"
    ELSE "update"

\* ------------------------------------------------ phalerts.py: alerts()

\* sorted(a["labels"].values()): insertion sort of the label values.
RECURSIVE InsertValue(_, _)
InsertValue(v, l) ==
    IF l = <<>> THEN <<v>>
    ELSE IF v < Head(l) THEN <<v>> \o l
    ELSE <<Head(l)>> \o InsertValue(v, Tail(l))

RECURSIVE SortedValues(_)
SortedValues(l) ==
    IF l = <<>> THEN <<>> ELSE InsertValue(Head(l), SortedValues(Tail(l)))

\* Python's order of two lists.
RECURSIVE ListLess(_, _)
ListLess(a, b) ==
    IF b = <<>> THEN FALSE
    ELSE IF a = <<>> THEN TRUE
    ELSE IF Head(a) # Head(b) THEN Head(a) < Head(b)
    ELSE ListLess(Tail(a), Tail(b))

AlertKey(a) == SortedValues(a.labels)

\* sorted(data["alerts"], key=...): stable, so an alert goes after the alerts
\* already placed whose key is not greater.
RECURSIVE InsertAlert(_, _)
InsertAlert(a, l) ==
    IF l = <<>> THEN <<a>>
    ELSE IF ListLess(AlertKey(a), AlertKey(Head(l))) THEN <<a>> \o l
    ELSE <<Head(l)>> \o InsertAlert(a, Tail(l))

RECURSIVE SortAlerts(_)
SortAlerts(l) ==
    IF l = <<>> THEN <<>>
    ELSE InsertAlert(l[Len(l)], SortAlerts(SubSeq(l, 1, Len(l) - 1)))

\* TPL_DESCRIPTION: one block per firing alert, in the order of the list, with
\* the alert's labels in dictsort order.
RECURSIVE RenderDescription(_)
RenderDescription(alerts) ==
    IF alerts = <<>> THEN <<>>
    ELSE (IF Head(alerts).status = "firing" THEN <<Head(alerts).labels>> ELSE <<>>)
         \o RenderDescription(Tail(alerts))

\* The title templates: args.tpl_title's default, a ?title= without any
\* expression, and a ?title= Jinja2 cannot parse.
TplDefault == [kind |-> "expr", text |-> <<"{{ groupLabels.alertname }}">>]
TplLiteral == [kind |-> "literal", text |-> TXE]
TplMalformed == [kind |-> "malformed", text |-> <<"{{">>]
Templates == {TplDefault, TplLiteral, TplMalformed}

\* Variant: a template that cannot be parsed is used as the title as it is.
RenderTitleLenient(tpl, alertname) ==
    CASE tpl.kind = "expr" -> Returned(alertname)
      [] OTHER -> Returned(tpl.text)

\* Template(tpl).render(data)
RenderTitle(tpl, alertname) ==
    CASE tpl.kind = "malformed" -> Raised("TemplateError", NoMsg, <<>>)
      [] tpl.kind = "literal" -> Returned(tpl.text)
      [] OTHER -> Returned(alertname)

\* The request bodies: one that is no JSON, and JSON bodies by their "version".
GoodBody == [json |-> TRUE, version |-> "\"4\""]
Bodies == { [json |-> FALSE, version |-> ""],
            GoodBody,
            [json |-> TRUE, version |-> "\"3\""],
            [json |-> TRUE, version |-> "4"] }

\* Variant: every key is accepted.
NoUnknownArgs(argkeys) == {}

\* set(request.args.keys()) - {"project", "phid", "title"}
UnknownArgs(argkeys) == argkeys \ {"project", "phid", "title"}

\* Variant: the version is compared as a number, so 4 passes like "4".
VersionLoose(body) == body.version \in {"\"4\"", "4"}

\* data["version"] != "4" is false: the JSON string "4" and nothing else.
VersionAccepted(body) == body.version = "\"4\""

NoResp == [code |-> 0, body |-> ""]

\* The response to process_task's end: except Error -> 500 "Error"; any other
\* exception is not caught and Flask answers 500 itself; otherwise 200 "OK".
ResponseTo(exc) ==
    CASE exc = "" -> [code |-> 200, body |-> "OK"]
      [] exc = "Error" -> [code |-> 500, body |-> "Error"]
      [] OTHER -> [code |-> 500, body |-> "Internal Server Error"]

\* metric_error_count.inc() is in the except Error branch only.
ErrorsAfter(n, exc) == IF exc = "Error" THEN n + 1 ELSE n

\* The requests a run of SpecHttp draws from:
\*   validation: every query string, body and title template, one alert group;
\*   tracker:    well-formed requests whose alert group changes and whose
\*               project may not exist;
\*   order:      well-formed requests with the same alerts in different orders.
HttpUniverses ==
    { [name |-> "validation", argkeys |-> { {}, {"unknown_arg"} }, bodies |-> Bodies,
       templates |-> Templates, alerts |-> { <<A1>> }, groups |-> {NoGroups}],
      [name |-> "tracker", argkeys |-> { {} }, bodies |-> {GoodBody},
       templates |-> {TplDefault}, alerts |-> { <<A1>>, <<A1, A3>> },
       groups |-> {NoGroups, Groups(<<NOSUCH>>, <<>>)}],
      [name |-> "order", argkeys |-> { {} }, bodies |-> {GoodBody},
       templates |-> {TplDefault}, alerts |-> AlertLists, groups |-> {NoGroups}] }

\* The alert group a run of SpecRedeliver keeps delivering: title TX with
\* description D1, for a group given by a project name and a direct id.
RedeliverUniverses ==
    { [name |-> "redeliver", groups |-> Groups(<<FOOBAR>>, <<"PHID-12">>)] }

\* ------------------------------------------------------------------ state

VARIABLES
    universe,   \* the inputs this run draws from
    tasks,      \* the tracker's tasks, in creation order
    ncloses,    \* how many tasks somebody else has closed
    errors,     \* metric_error_count
    nreq,       \* invocations started so far
    pc,         \* per thread: "idle", "resolve", "find", "create", "update", "done"
    req,        \* per thread: the request (or the arguments of process_task)
    phids,      \* per thread: process_task's phids list
    task,       \* per thread: what find_task returned
    calls,      \* per thread: the tracker calls issued by this invocation
    steps,      \* per thread: the stages of alerts() this request went through
    outcome,    \* per thread: "Created", "Updated", "Unchanged" or the exception
    errmsg,     \* per thread: the exception's message
    resp,       \* per thread: the HTTP response
    cands,      \* per thread: the candidates maniphest.search returned (history)
    locLen,     \* per thread: how many tasks existed when it searched (history)
    pred,       \* per thread: the invocation for the same arguments that ended just
                \* before this one began, until somebody else writes (history)
    alone,      \* per thread: nobody else changed the tracker while it ran (history)
    lastBy,     \* the thread whose invocation ended last, ran alone and is still on
                \* record, until the tracker changes; 0 for none (history)
    seqClean,   \* so far: no overlap, no error, no other writer (history)
    latest,     \* while seqClean: the description last reconciled per alert group
    locAt,      \* per task id: locLen of the invocation that created it (history)
    raised,     \* requests whose process_task ended with an exception (history)
    ack         \* per thread: the response its maniphest.edit received (history)

vars == << universe, tasks, ncloses, errors, nreq, pc, req, phids, task, calls, steps,
           outcome, errmsg, resp, cands, locLen, pred, alone, lastBy, seqClean, latest,
           locAt, raised, ack >>

\* No maniphest.edit answered yet.
NoAck == [kind |-> "", object |-> NoObject, hasTransactions |-> FALSE, echoed |-> 0]

NoReq == [via |-> "", argkeys |-> {}, body |-> GoodBody,
          tpl |-> TplDefault, alertname |-> <<>>, alerts |-> <<>>,
          title |-> <<>>, description |-> <<>>, projects |-> <<>>, phids |-> <<>>]

NoPred == [outcome |-> "", alerts |-> <<>>, description |-> <<>>, target |-> NoObject]

Running(p) == pc[p] \in {"resolve", "find", "create", "update"}

Start ==
    /\ tasks = <<>>
    /\ ncloses = 0
    /\ errors = 0
    /\ nreq = 0
    /\ pc = [p \in Procs |-> "idle"]
    /\ req = [p \in Procs |-> NoReq]
    /\ phids = [p \in Procs |-> <<>>]
    /\ task = [p \in Procs |-> NoTask]
    /\ calls = [p \in Procs |-> <<>>]
    /\ steps = [p \in Procs |-> <<>>]
    /\ outcome = [p \in Procs |-> ""]
    /\ errmsg = [p \in Procs |-> NoMsg]
    /\ resp = [p \in Procs |-> NoResp]
    /\ cands = [p \in Procs |-> <<>>]
    /\ locLen = [p \in Procs |-> 0]
    /\ pred = [p \in Procs |-> NoPred]
    /\ alone = [p \in Procs |-> TRUE]
    /\ lastBy = 0
    /\ seqClean = TRUE
    /\ latest = {}
    /\ locAt = <<>>
    /\ raised = 0
    /\ ack = [p \in Procs |-> NoAck]

Init == universe \in Universes /\ Start

InitHttp == universe \in HttpUniverses /\ Start

\* The tracker calls as the mocks of the tests would record them.
ProjectSearchCall(name) ==
    [api |-> "project.search", name |-> name, objectIdentifier |-> NoObject,
     transactions |-> <<>>]
ManiphestSearchCall(title, ps) ==
    [api |-> "maniphest.search", name |-> title, objectIdentifier |-> NoObject,
     transactions |-> <<[type |-> "projects", value |-> ps]>>]
ManiphestEditCall(phid, transactions) ==
    [api |-> "maniphest.edit", name |-> <<>>, objectIdentifier |-> phid,
     transactions |-> transactions]

\* ---------------------------------------------------------------- history

\* The task an ended invocation created, updated or found unchanged.
TargetOf(p) ==
    CASE outcome[p] = "Created" -> tasks[Len(tasks)].phid
      [] outcome[p] \in {"Updated", "Unchanged"} -> task[p].phid
      [] OTHER -> NoObject

AlertGroup(title, groups) == [title |-> title, groups |-> groups]

\* latest with the entry of p's alert group replaced.
LatestAfter(p) ==
    { e \in latest : AlertGroup(e.title, e.groups) # AlertGroup(req[p].title, Range(phids[p])) }
    \cup { [title |-> req[p].title, groups |-> Range(phids[p]),
            desc |-> req[p].description] }

\* Thread p, the lowest free one, takes a new invocation: its locals are fresh.
Fresh(p) ==
    /\ pc[p] \in {"idle", "done"}
    /\ \A q \in Procs : q < p => Running(q)
    /\ task' = [task EXCEPT ![p] = NoTask]
    /\ calls' = [calls EXCEPT ![p] = <<>>]
    /\ outcome' = [outcome EXCEPT ![p] = ""]
    /\ errmsg' = [errmsg EXCEPT ![p] = NoMsg]
    /\ cands' = [cands EXCEPT ![p] = <<>>]
    /\ locLen' = [locLen EXCEPT ![p] = 0]
    /\ ack' = [ack EXCEPT ![p] = NoAck]

\* A new invocation begins on thread p, one of at most limit.
Begin(p, limit) ==
    /\ nreq < limit
    /\ nreq' = nreq + 1
    /\ Fresh(p)

\* Bookkeeping at the entry of process_task(title, ..., projects, ps) on p.
Enter(p, title, projects, ps) ==
    /\ pred' = [pred EXCEPT ![p] =
                  IF /\ lastBy # 0
                     /\ req[lastBy].title = title
                     /\ req[lastBy].projects = projects
                     /\ req[lastBy].phids = ps
                  THEN [outcome |-> outcome[lastBy],
                        alerts |-> req[lastBy].alerts,
                        description |-> req[lastBy].description,
                        target |-> TargetOf(lastBy)]
                  ELSE NoPred]
    /\ alone' = [alone EXCEPT ![p] = TRUE]
    /\ lastBy' = IF lastBy = p THEN 0 ELSE lastBy
    /\ seqClean' = (seqClean /\ \A q \in Procs \ {p} : ~Running(q))
    /\ latest' = IF seqClean' THEN latest ELSE {}

\* process_task on thread p ends: normally with out ("Created", "Updated",
\* "Unchanged"; exc = ""), or with exception exc and message m.  For a request,
\* alerts() turns that into the response and counts the error.
Conclude(p, out, exc, m) ==
    /\ pc' = [pc EXCEPT ![p] = "done"]
    /\ outcome' = [outcome EXCEPT ![p] = IF exc = "" THEN out ELSE exc]
    /\ errmsg' = [errmsg EXCEPT ![p] = m]
    /\ resp' = [resp EXCEPT ![p] = IF req[p].via = "http" THEN ResponseTo(exc) ELSE NoResp]
    /\ errors' = IF req[p].via = "http" THEN ErrorsAfter(errors, exc) ELSE errors
    /\ raised' = IF req[p].via = "http" /\ exc # "" THEN raised + 1 ELSE raised
    /\ lastBy' = IF alone[p] THEN p ELSE 0
    /\ seqClean' = (seqClean /\ exc = "")
    /\ latest' = IF seqClean' THEN LatestAfter(p) ELSE {}

\* The other threads when p's step changed (wrote) the tracker or did not.
Others(p, wrote) ==
    /\ alone' = [q \in Procs |-> IF wrote /\ q # p /\ Running(q) THEN FALSE ELSE alone[q]]
    /\ pred' = [q \in Procs |-> IF wrote /\ q # p /\ Running(q) THEN NoPred ELSE pred[q]]

\* ---------------------------------------------------------------- actions

\* process_task(title, description, projects, phids) called directly, as the
\* tests call it: the for loop over projects comes first, find_task after it.
CallWithin(p, limit) ==
    \E input \in universe.inputs :
      LET title == input.title
          description == input.description
          g == input.groups
      IN
        /\ Begin(p, limit)
        /\ Enter(p, title, g.projects, g.phids)
        /\ req' = [req EXCEPT ![p] =
                     [NoReq EXCEPT !.via = "direct", !.title = title,
                                   !.description = description,
                                   !.projects = g.projects, !.phids = g.phids]]
        /\ phids' = [phids EXCEPT ![p] = g.phids]
        /\ steps' = [steps EXCEPT ![p] = <<>>]
        /\ resp' = [resp EXCEPT ![p] = NoResp]
        /\ pc' = [pc EXCEPT ![p] = IF g.projects = <<>> THEN "find" ELSE "resolve"]
        /\ UNCHANGED << universe, tasks, ncloses, errors, raised, locAt >>

Call(p) == CallWithin(p, MaxRequests)

CallOps(p) == CallWithin(p, MaxOpsRequests)

\* set(request.args.keys()): the keys a request's query string carries.
ArgKeys(extra, tpl, g) ==
    extra \cup (IF tpl # TplDefault THEN {"title"} ELSE {})
          \cup (IF g.projects # <<>> THEN {"project"} ELSE {})
          \cup (IF g.phids # <<>> THEN {"phid"} ELSE {})

\* alerts(): POST /alerts.  The checks of the query string and of the version,
\* the sort of the alerts and the two renderings are local to the request; the
\* request is answered here (400) or goes on into process_task.
Alerts(p) ==
    \E extra \in universe.argkeys, body \in universe.bodies,
       tpl \in universe.templates, alerts \in universe.alerts, g \in universe.groups :
        LET argkeys == ArgKeys(extra, tpl, g)
            sorted == SortAlerts(alerts)
            title == RenderTitle(tpl, TX)
            description == RenderDescription(sorted)
            stage == CASE UnknownArgs(argkeys) # {} -> <<"args">>
                       [] ~body.json -> <<"args", "get_json">>
                       [] ~VersionAccepted(body) -> <<"args", "get_json", "version">>
                       [] title.raised # "" ->
                            <<"args", "get_json", "version", "sort", "title">>
                       [] OTHER ->
                            <<"args", "get_json", "version", "sort", "title",
                              "description", "process_task">>
            answer == CASE UnknownArgs(argkeys) # {} ->
                             [code |-> 400, body |-> "Unexpected args"]
                        [] ~body.json -> [code |-> 400, body |-> "Bad Request"]
                        [] ~VersionAccepted(body) ->
                             [code |-> 400, body |-> "Unknown message version"]
                        [] title.raised # "" ->
                             [code |-> 400, body |-> "Unable to format title template"]
                        [] OTHER -> NoResp
            enters == answer = NoResp
        IN /\ Begin(p, MaxHttpRequests)
           /\ steps' = [steps EXCEPT ![p] = stage]
           /\ resp' = [resp EXCEPT ![p] = answer]
           /\ req' = [req EXCEPT ![p] =
                        [via |-> "http", argkeys |-> argkeys, body |-> body, tpl |-> tpl,
                         alertname |-> TX, alerts |-> alerts,
                         title |-> IF enters THEN title.value ELSE <<>>,
                         description |-> IF enters THEN description ELSE <<>>,
                         projects |-> g.projects, phids |-> g.phids]]
           /\ phids' = [phids EXCEPT ![p] = g.phids]
           /\ IF enters
              THEN /\ Enter(p, title.value, g.projects, g.phids)
                   /\ pc' = [pc EXCEPT ![p] =
                               IF g.projects = <<>> THEN "find" ELSE "resolve"]
              ELSE /\ pc' = [pc EXCEPT ![p] = "done"]
                   /\ pred' = [pred EXCEPT ![p] = NoPred]
                   /\ lastBy' = IF lastBy = p THEN 0 ELSE lastBy
                   /\ UNCHANGED << alone, seqClean, latest >>
           /\ UNCHANGED << universe, tasks, ncloses, errors, raised, locAt >>

\* Variant: the loop over projects is left after its first round.
AfterResolveFirst(k, n) == "find"

\* for project in projects: after the k-th of n names the loop goes on, after
\* the last one process_task goes on to find_task.
AfterResolve(k, n) == IF k = n THEN "find" ELSE "resolve"

\* find_project_phid(project) for the next name of the list; phids.append(phid).
ProjectSearch(p) ==
    /\ pc[p] = "resolve"
    /\ LET k == Len(phids[p]) - Len(req[p].phids) + 1
           name == req[p].projects[k]
           data == ProjectSearchData(name)
       IN \E perm \in Perms(data), after \in Cursors :
            LET result == [data |-> [i \in 1..Len(data) |-> data[perm[i]]],
                           after |-> after]
                r == find_project_phid(result, name)
            IN /\ calls' = [calls EXCEPT ![p] = Append(@, ProjectSearchCall(name))]
               /\ IF r.raised = ""
                  THEN /\ phids' = [phids EXCEPT ![p] = Append(@, r.value)]
                       /\ pc' = [pc EXCEPT ![p] = AfterResolve(k, Len(req[p].projects))]
                       /\ UNCHANGED << outcome, errmsg, resp, errors, raised, lastBy,
                                       seqClean, latest >>
                  ELSE /\ phids' = phids
                       /\ Conclude(p, "", r.raised, r.msg)
    /\ Others(p, FALSE)
    /\ UNCHANGED << universe, tasks, ncloses, nreq, req, task, steps, cands, locLen,
                    locAt, ack >>

\* find_task(title, phids) and the branch of process_task on its result; the
\* branch that writes nothing ends the invocation here.
TaskSearch(p) ==
    /\ pc[p] = "find"
    /\ \E prefilter \in BOOLEAN, after \in Cursors :
         LET result == [data |-> ManiphestSearchData(tasks, req[p].title, phids[p],
                                                     prefilter),
                        after |-> after]
             r == find_task(result, req[p].title, phids[p])
             d == Decide(r.value, req[p].description)
         IN /\ calls' = [calls EXCEPT ![p] =
                           Append(@, ManiphestSearchCall(req[p].title, phids[p]))]
            /\ cands' = [cands EXCEPT ![p] = result.data]
            /\ locLen' = [locLen EXCEPT ![p] = Len(tasks)]
            /\ task' = [task EXCEPT ![p] = r.value]
            /\ IF r.raised # ""
               THEN Conclude(p, "", r.raised, r.msg)
               ELSE IF d = "unchanged"
               THEN Conclude(p, "Unchanged", "", NoMsg)
               ELSE /\ pc' = [pc EXCEPT ![p] = d]
                    /\ UNCHANGED << outcome, errmsg, resp, errors, raised, lastBy,
                                    seqClean, latest >>
    /\ Others(p, FALSE)
    /\ UNCHANGED << universe, tasks, ncloses, nreq, req, phids, steps, locAt, ack >>

\* create_task(title, description, phids): one maniphest.edit without
\* objectIdentifier, then the check of the response.
CreateTask(p) ==
    /\ pc[p] = "create"
    /\ LET transactions == CreateTransactions(req[p].title, req[p].description, phids[p])
           new == TaskPhid(Len(tasks) + 1)
       IN \E result \in CreateResponses(Len(transactions), new), applied \in BOOLEAN :
            LET r == create_task_result(result)
            IN /\ MayApply(result, applied)
               /\ calls' = [calls EXCEPT ![p] =
                              Append(@, ManiphestEditCall(NoObject, transactions))]
               /\ tasks' = IF applied THEN TrackerCreate(tasks, transactions) ELSE tasks
               /\ locAt' = IF applied THEN Append(locAt, locLen[p]) ELSE locAt
               /\ ack' = [ack EXCEPT ![p] = result]
               /\ Conclude(p, "Created", r.raised, r.msg)
               /\ Others(p, applied)
    /\ UNCHANGED << universe, ncloses, nreq, req, phids, task, steps, cands, locLen >>

\* update_task(task, description): one maniphest.edit on task["phid"], then the
\* check of the response.
UpdateTask(p) ==
    /\ pc[p] = "update"
    /\ LET transactions == UpdateTransactions(req[p].description)
       IN \E result \in UpdateResponses(Len(transactions), task[p].phid),
             applied \in BOOLEAN :
            LET r == update_task_result(result, transactions, task[p].phid)
            IN /\ MayApply(result, applied)
               /\ calls' = [calls EXCEPT ![p] =
                              Append(@, ManiphestEditCall(task[p].phid, transactions))]
               /\ tasks' = IF applied
                           THEN TrackerUpdate(tasks, task[p].phid, transactions)
                           ELSE tasks
               /\ ack' = [ack EXCEPT ![p] = result]
               /\ Conclude(p, "Updated", r.raised, r.msg)
               /\ Others(p, tasks' # tasks)
    /\ UNCHANGED << universe, ncloses, nreq, req, phids, task, steps, cands, locLen,
                    locAt >>

\* Somebody else closes an open task in the tracker.
UserCloses ==
    /\ ncloses < MaxCloses
    /\ \E i \in 1..Len(tasks) :
         /\ tasks[i].status = "open"
         /\ tasks' = [tasks EXCEPT ![i].status = "closed"]
    /\ ncloses' = ncloses + 1
    /\ alone' = [q \in Procs |-> IF Running(q) THEN FALSE ELSE alone[q]]
    /\ pred' = [q \in Procs |-> IF Running(q) THEN NoPred ELSE pred[q]]
    /\ lastBy' = 0
    /\ seqClean' = FALSE
    /\ latest' = {}
    /\ UNCHANGED << universe, errors, raised, nreq, pc, req, phids, task, calls, steps,
                    outcome, errmsg, resp, cands, locLen, locAt, ack >>

Next ==
    \/ \E p \in Procs : Call(p)
    \/ \E p \in Procs : ProjectSearch(p)
    \/ \E p \in Procs : TaskSearch(p)
    \/ \E p \in Procs : CreateTask(p)
    \/ \E p \in Procs : UpdateTask(p)

\* process_task called by concurrent callers, the tracker written by nobody else.
Spec == Init /\ [][Next]_vars

NextOps ==
    \/ \E p \in Procs : CallOps(p)
    \/ \E p \in Procs : ProjectSearch(p)
    \/ \E p \in Procs : TaskSearch(p)
    \/ \E p \in Procs : CreateTask(p)
    \/ \E p \in Procs : UpdateTask(p)
    \/ UserCloses

\* The same, with somebody else closing tasks in the tracker.
SpecOps == Init /\ [][NextOps]_vars

NextHttp ==
    \/ \E p \in Procs : Alerts(p)
    \/ \E p \in Procs : ProjectSearch(p)
    \/ \E p \in Procs : TaskSearch(p)
    \/ \E p \in Procs : CreateTask(p)
    \/ \E p \in Procs : UpdateTask(p)

\* POST /alerts requests, each going through alerts() into process_task.
SpecHttp == InitHttp /\ [][NextHttp]_vars

\* Deliveries of one alert group without end.  The caller (Alertmanager) sends
\* the group again and again; the first MaxUnsettled deliveries may carry the
\* description D2 the group had before, later ones carry D1.
InitRedeliver == universe \in RedeliverUniverses /\ Start

Settled == nreq > MaxUnsettled

Redeliver(p) ==
    \E description \in IF nreq < MaxUnsettled THEN {D1, D2} ELSE {D1} :
      LET g == universe.groups
      IN
        /\ Fresh(p)
        /\ nreq' = IF Settled THEN nreq ELSE nreq + 1
        /\ Enter(p, TX, g.projects, g.phids)
        /\ req' = [req EXCEPT ![p] =
                     [NoReq EXCEPT !.via = "direct", !.title = TX,
                                   !.description = description,
                                   !.projects = g.projects, !.phids = g.phids]]
        /\ phids' = [phids EXCEPT ![p] = g.phids]
        /\ steps' = [steps EXCEPT ![p] = <<>>]
        /\ resp' = [resp EXCEPT ![p] = NoResp]
        /\ pc' = [pc EXCEPT ![p] = IF g.projects = <<>> THEN "find" ELSE "resolve"]
        /\ UNCHANGED << universe, tasks, ncloses, errors, raised, locAt >>

\* The tracker's answer to p's call made no function of phalerts.py raise.
Answered(p) == pc[p] = "done" => outcome[p] \in {"Created", "Updated", "Unchanged"}

\* Step A of thread p; once settled, the tracker answers without an error.
Tracker(A, p) == A /\ (Settled => Answered(p)')

NextRedeliver ==
    \/ \E p \in Procs : Redeliver(p)
    \/ \E p \in Procs : Tracker(ProjectSearch(p), p)
    \/ \E p \in Procs : Tracker(TaskSearch(p), p)
    \/ \E p \in Procs : Tracker(CreateTask(p), p)
    \/ \E p \in Procs : Tracker(UpdateTask(p), p)

\* A thread that is inside process_task goes on to its next call and gets an
\* answer (each call is a blocking round trip); the caller keeps delivering.
Proceed(p) ==
    \/ Tracker(ProjectSearch(p), p)
    \/ Tracker(TaskSearch(p), p)
    \/ Tracker(CreateTask(p), p)
    \/ Tracker(UpdateTask(p), p)

FairRedeliver ==
    /\ \A p \in Procs : WF_vars(Proceed(p))
    /\ WF_vars(\E p \in Procs : Redeliver(p))

SpecRedeliver == InitRedeliver /\ [][NextRedeliver]_vars /\ FairRedeliver

\* ------------------------------------------------------------- properties

Done(p) == pc[p] = "done"

EditCalls(cs) == SelectSeq(cs, LAMBDA c : c.api = "maniphest.edit")
TaskSearchCalls(cs) == SelectSeq(cs, LAMBDA c : c.api = "maniphest.search")

\* The one maniphest.edit a create is, and the one an update of task phid is.
CreateCallOf(p) ==
    ManiphestEditCall(NoObject,
        << [type |-> "title", value |-> req[p].title],
           [type |-> "description", value |-> req[p].description] >>
        \o (IF phids[p] = <<>> THEN <<>>
            ELSE << [type |-> "projects.add", value |-> phids[p]] >>))
UpdateCallOf(p, phid) ==
    ManiphestEditCall(phid, << [type |-> "description", value |-> req[p].description] >>)

ProjectCursorText == "Unexpected 'after' cursor while searching for project"
TaskCursorText == "Unexpected 'after' cursor while searching for task"

\* A search of this invocation signalled more pages.
Paginated(p) == errmsg[p].text \in {ProjectCursorText, TaskCursorText}

\* find_task has returned (a task or none) in this invocation.
Located(p) ==
    /\ TaskSearchCalls(calls[p]) # <<>>
    /\ errmsg[p].text # TaskCursorText

\* The invocation on p follows one for the same arguments that ran alone, and
\* nothing but p itself has changed the tracker since that one ended.
Follows(p) == pred[p] # NoPred /\ alone[p]

\* What a locate for (title, ps) returns in the current state of the tracker.
Locate(title, ps, prefilter) ==
    find_task([data |-> ManiphestSearchData(tasks, title, ps, prefilter),
               after |-> NoCursor], title, ps).value

OpenMatches(title, groups) ==
    { i \in 1..Len(tasks) : /\ tasks[i].status = "open"
                            /\ tasks[i].name = title
                            /\ groups \subseteq tasks[i].projects }

\* C1: an invocation that follows one with identical (title, description,
\* projects, phids) which ended Created, Updated or Unchanged, with no other
\* change to the tracker, issues no maniphest.edit at all and ends Unchanged
\* (or, when a search signals more pages, with that error); and an invocation
\* that ends Created has issued exactly one maniphest.edit, without
\* objectIdentifier; an invocation that located no task ends Created unless the
\* tracker's answer to the create carries no object.
C1_Idempotent ==
    \A p \in Procs :
        /\ (Done(p) /\ outcome[p] = "Created") => EditCalls(calls[p]) = <<CreateCallOf(p)>>
        /\ (Done(p) /\ Located(p) /\ task[p] = NoTask)
           => \/ outcome[p] = "Created"
              \/ outcome[p] = "Error" /\ errmsg[p].text = "Failed to create task"
        /\ ( /\ Done(p) /\ Follows(p)
             /\ pred[p].description = req[p].description
             /\ pred[p].outcome \in {"Created", "Updated", "Unchanged"} )
           => /\ EditCalls(calls[p]) = <<>>
              /\ \/ outcome[p] = "Unchanged" /\ task[p].phid = pred[p].target
                 \/ outcome[p] = "Error" /\ Paginated(p)

\* C1 witness: a third identical call in a row: Created, Unchanged, Unchanged.
C1_Witness ==
    \E p \in Procs :
        /\ Done(p) /\ Follows(p) /\ nreq = 3 /\ Len(tasks) = 1
        /\ pred[p].description = req[p].description
        /\ pred[p].outcome = "Unchanged"
        /\ outcome[p] = "Unchanged"
        /\ locAt = <<0>>

\* C2: an invocation with description D2 that follows one with D1 # D2 for the
\* same title and groups which ended Created, with no other writer, issues
\* exactly one maniphest.edit, on the task the first one created, and ends
\* Updated (unless the tracker's answer is faulty: more pages, or an incomplete
\* acknowledgement); once it has ended Updated, a locate for the same title and
\* groups returns that task with description D2.
C2_CreateThenUpdate ==
    \A p \in Procs :
        ( /\ Done(p) /\ Follows(p)
          /\ pred[p].description # req[p].description
          /\ pred[p].outcome = "Created" )
        => /\ outcome[p] \in {"Updated", "Error", "KeyError"}
           /\ IF Paginated(p)
              THEN EditCalls(calls[p]) = <<>>
              ELSE EditCalls(calls[p]) = <<UpdateCallOf(p, pred[p].target)>>
           /\ (outcome[p] = "Updated" /\ lastBy = p)
              => \A prefilter \in BOOLEAN :
                    /\ Locate(req[p].title, phids[p], prefilter).phid = pred[p].target
                    /\ Locate(req[p].title, phids[p], prefilter).desc = req[p].description

\* C2 witness: Created with D1, then Updated with D2, nothing changed since.
C2_Witness ==
    \E p \in Procs :
        /\ Done(p) /\ Follows(p) /\ lastBy = p
        /\ pred[p].outcome = "Created"
        /\ pred[p].description = D1 /\ req[p].description = D2
        /\ outcome[p] = "Updated"
        /\ Len(tasks) = 1 /\ tasks[1].desc = D2

\* C3: once find_task has returned, the writes of the invocation are decided by
\* its result and the equality of the descriptions alone: no task -> one
\* create (no objectIdentifier), no update; a task with the same description ->
\* no write; a task with another description -> one update, on that task's
\* phid, of the description only, and no create.  No write precedes that.
C3_ThreeWay ==
    \A p \in Procs :
        Located(p) =>
            /\ pc[p] \in {"create", "update"} => EditCalls(calls[p]) = <<>>
            /\ pc[p] = "create" => task[p] = NoTask
            /\ pc[p] = "update" => task[p] # NoTask /\ task[p].desc # req[p].description
            /\ Done(p) =>
                 EditCalls(calls[p]) =
                    IF task[p] = NoTask THEN <<CreateCallOf(p)>>
                    ELSE IF task[p].desc = req[p].description THEN <<>>
                    ELSE <<UpdateCallOf(p, task[p].phid)>>

\* C3 witness: one thread has updated the task it located while the other has
\* located the same task with the description it wants and has written nothing.
C3_Witness ==
    \E p, q \in Procs :
        /\ Done(p) /\ outcome[p] = "Updated"
        /\ task[p] # NoTask /\ task[p].desc # req[p].description
        /\ Done(q) /\ outcome[q] = "Unchanged"
        /\ task[q].phid = task[p].phid /\ EditCalls(calls[q]) = <<>>

Resolvable(name) == \E i \in 1..Len(TrackerProjects) : TrackerProjects[i].name = name

FirstUnresolvable(names) ==
    names[CHOOSE i \in 1..Len(names) :
            /\ ~Resolvable(names[i])
            /\ \A j \in 1..(i - 1) : Resolvable(names[j])]

\* C4: an invocation one of whose project names no project has exactly never
\* reaches find_task and never writes: it ends with an Error, having issued
\* project searches only; the error names the project whose resolution failed,
\* which is the first such name of the list unless a project search signalled
\* more pages before.
C4_AllOrNothing ==
    \A p \in Procs :
        (req[p].via = "direct" /\ \E i \in 1..Len(req[p].projects) : ~Resolvable(req[p].projects[i]))
        => /\ pc[p] \in {"resolve", "done"}
           /\ \A i \in 1..Len(calls[p]) : calls[p][i].api = "project.search"
           /\ task[p] = NoTask
           /\ Done(p) =>
                /\ outcome[p] = "Error"
                /\ \/ /\ errmsg[p].text = "Could not find project"
                      /\ errmsg[p].name = FirstUnresolvable(req[p].projects)
                   \/ /\ errmsg[p].text = ProjectCursorText
                      /\ errmsg[p].name = req[p].projects[Len(calls[p])]

\* C4 witness: the second name of the list fails after the first has resolved,
\* although the search for it returned a candidate.
C4_Witness ==
    \E p \in Procs :
        /\ Done(p) /\ req[p].projects = <<FOOBAR, EXTRA>>
        /\ phids[p] = <<"PHID-12">>
        /\ errmsg[p] = Msg("Could not find project", EXTRA, NoObject)
        /\ Len(calls[p]) = 2

\* C5: find_task accepts a candidate with the exact title if and only if the
\* required ids are all among its projects: it returns a candidate that has
\* them all, and returns none only when no candidate with the title has.
C5_Superset ==
    \A p \in Procs :
        Located(p) =>
            LET accepted == { i \in 1..Len(cands[p]) :
                                /\ cands[p][i].name = req[p].title
                                /\ Range(phids[p]) \subseteq cands[p][i].projects }
            IN /\ task[p] = NoTask <=> accepted = {}
               /\ task[p] # NoTask => \E i \in accepted : cands[p][i] = task[p]

\* C5 witness: the task in {PHID-11, PHID-12} is returned for {PHID-11} and is
\* not returned for {PHID-11, PHID-13}, though it is among the candidates.
C5_Witness ==
    \E p, q \in Procs :
        /\ Located(p) /\ phids[p] = <<"PHID-11">>
        /\ task[p] # NoTask /\ task[p].projects = {"PHID-11", "PHID-12"}
        /\ Located(q) /\ phids[q] = <<"PHID-11", "PHID-13">>
        /\ task[q] = NoTask
        /\ \E i \in 1..Len(cands[q]) : cands[q][i] = task[p]

\* C6: find_task never returns, and process_task never updates, a task whose
\* title is not the requested one; when the search returns candidates and none
\* has the requested title, the invocation creates (one create call, outcome
\* Created unless the tracker's answer carries no object).
C6_ExactTitle ==
    \A p \in Procs :
        /\ task[p] # NoTask => task[p].name = req[p].title
        /\ \A i \in 1..Len(calls[p]) :
             (calls[p][i].api = "maniphest.edit" /\ calls[p][i].objectIdentifier # NoObject)
             => \E j \in 1..Len(tasks) : /\ tasks[j].phid = calls[p][i].objectIdentifier
                                         /\ tasks[j].name = req[p].title
        /\ ( /\ Located(p) /\ Done(p) /\ cands[p] # <<>>
             /\ \A i \in 1..Len(cands[p]) : cands[p][i].name # req[p].title )
           => /\ EditCalls(calls[p]) = <<CreateCallOf(p)>>
              /\ outcome[p] \in {"Created", "Error"}

\* C6 witness: the search for "X" returned the task titled "X extra" only, and
\* the invocation created a task.
C6_Witness ==
    \E p \in Procs :
        /\ Done(p) /\ req[p].title = TX /\ outcome[p] = "Created"
        /\ Len(cands[p]) = 1 /\ cands[p][1].name = TXE

\* An alert group of latest whose group ids are nested with those of another
\* alert group of latest that has the same title.
Nested(e) ==
    \E f \in latest :
        /\ f.title = e.title
        /\ f.groups # e.groups
        /\ (f.groups \subseteq e.groups \/ e.groups \subseteq f.groups)

UpToDate(e) ==
    /\ Cardinality(OpenMatches(e.title, e.groups)) = 1
    /\ \A i \in OpenMatches(e.title, e.groups) : tasks[i].desc = e.desc

\* C7, as stated: after a sequence of non-overlapping invocations that all ended
\* without error, on a tracker that was empty and has no other writer, every
\* alert group (title, merged group ids) reconciled has exactly one open task
\* with its title and its group ids, carrying the description last reconciled
\* for it.
C7_AsStated == seqClean => \A e \in latest : UpToDate(e)

\* C7, amended: the same, for every reconciled alert group whose group ids are
\* neither a proper subset nor a proper superset of the group ids of another
\* reconciled alert group with the same title.
C7_OnePerAlertGroup == seqClean => \A e \in latest : ~Nested(e) => UpToDate(e)

\* C7 witness: two alert groups with one title and group ids {PHID-11, PHID-12}
\* and {PHID-11, PHID-13} have been reconciled in turn, the second one twice,
\* and each has its own task.
C7_Witness ==
    /\ seqClean /\ nreq = 3 /\ Len(tasks) = 2 /\ \A p \in Procs : ~Running(p)
    /\ \E e, f \in latest :
         /\ e.title = f.title
         /\ e.groups = {"PHID-11", "PHID-12"} /\ f.groups = {"PHID-11", "PHID-13"}
         /\ UpToDate(e) /\ UpToDate(f)

\* C8: two open tasks with the same title and the same projects exist only
\* where the invocation that created the later one did its locate before the
\* earlier one was created, that is by two interleaved invocations that both
\* located no task; the state with the two tasks is the witness below, which no
\* guard of TaskSearch or CreateTask excludes.
C8_DuplicatesOnlyByRace ==
    \A i, j \in 1..Len(tasks) :
        ( /\ i < j
          /\ tasks[i].status = "open" /\ tasks[j].status = "open"
          /\ tasks[i].name = tasks[j].name
          /\ tasks[i].projects = tasks[j].projects )
        => locAt[j] < i

\* C8 witness: two invocations for the same title and group ids both located
\* no task in the empty tracker, both created, and two open tasks with that
\* title and those projects exist.
C8_Witness ==
    /\ \A p \in Procs : Done(p) /\ outcome[p] = "Created" /\ task[p] = NoTask
    /\ req[1].title = req[2].title /\ Range(phids[1]) = Range(phids[2])
    /\ Len(tasks) = 2 /\ locAt = <<0, 0>>
    /\ \A i \in 1..2 : /\ tasks[i].status = "open"
                       /\ tasks[i].name = req[1].title
                       /\ tasks[i].projects = Range(phids[1])

\* A request that passed the checks of alerts() and went into process_task.
Entered(p) ==
    /\ req[p].via = "http"
    /\ Len(steps[p]) > 0 /\ steps[p][Len(steps[p])] = "process_task"

\* C9, as stated: of the requests that went into process_task, each one that
\* ended with an error raised the error counter by one and was answered 500
\* with the body "Error", and each one that ended Created, Updated or Unchanged
\* was answered 200 and left the counter alone.
C9_BoundaryMapping ==
    /\ errors = raised
    /\ \A p \in Procs :
         (Entered(p) /\ Done(p)) =>
            IF outcome[p] \in {"Created", "Updated", "Unchanged"}
            THEN resp[p] = [code |-> 200, body |-> "OK"]
            ELSE resp[p] = [code |-> 500, body |-> "Error"]

\* C10: a request with a query parameter other than project, phid and title is
\* answered 400 at the first check, whatever its body and its title template:
\* get_json is not reached, nothing is rendered, no tracker call is made.
C10_UnknownArgs ==
    \A p \in Procs :
        (req[p].via = "http" /\ req[p].argkeys \ {"project", "phid", "title"} # {})
        => /\ Done(p)
           /\ resp[p] = [code |-> 400, body |-> "Unexpected args"]
           /\ steps[p] = <<"args">>
           /\ calls[p] = <<>>
           /\ outcome[p] = "" /\ task[p] = NoTask

\* C10 witness: such a request whose body is no JSON and whose title template is
\* malformed has been answered, while another request is inside process_task.
C10_Witness ==
    \E p, q \in Procs :
        /\ "unknown_arg" \in req[p].argkeys /\ Done(p)
        /\ ~req[p].body.json /\ req[p].tpl = TplMalformed
        /\ resp[p].code = 400
        /\ Running(q)

\* C11: a request whose JSON body has a version other than the string "4" is
\* answered 400 whatever its query string is, and never reaches process_task:
\* no tracker call is made; without an unknown parameter the answer is the one
\* of the version check, given before the alerts are sorted or a title rendered.
C11_UnknownVersion ==
    \A p \in Procs :
        (req[p].via = "http" /\ req[p].body.json /\ req[p].body.version # "\"4\"")
        => /\ Done(p)
           /\ resp[p].code = 400
           /\ calls[p] = <<>> /\ outcome[p] = "" /\ ~Entered(p)
           /\ req[p].argkeys \subseteq {"project", "phid", "title"}
              => /\ resp[p].body = "Unknown message version"
                 /\ steps[p] = <<"args", "get_json", "version">>

\* C11 witness: the body carries the number 4, the query string a title
\* parameter (a malformed template), and the answer is that of the version check.
C11_Witness ==
    \E p \in Procs :
        /\ req[p].via = "http" /\ Done(p)
        /\ req[p].body = [json |-> TRUE, version |-> "4"]
        /\ req[p].argkeys = {"title"} /\ req[p].tpl = TplMalformed
        /\ resp[p] = [code |-> 400, body |-> "Unknown message version"]

\* C12: a request that passes the checks of the query string and of the version
\* and whose title template cannot be rendered is answered 400 after the
\* rendering of the title: process_task is not called, no tracker call is made;
\* and the error counter counts at most the requests whose process_task raised,
\* so this answer is not counted.
C12_TitleTemplate ==
    /\ errors <= raised
    /\ \A p \in Procs :
         ( /\ req[p].via = "http" /\ req[p].body = GoodBody
           /\ req[p].argkeys \subseteq {"project", "phid", "title"}
           /\ req[p].tpl = TplMalformed )
         => /\ Done(p)
            /\ resp[p] = [code |-> 400, body |-> "Unable to format title template"]
            /\ steps[p] = <<"args", "get_json", "version", "sort", "title">>
            /\ calls[p] = <<>> /\ outcome[p] = "" /\ ~Entered(p)

\* C12 witness: one request failed in the rendering of its title, another one
\* failed in the tracker, and the counter is 1.
C12_Witness ==
    \E p, q \in Procs :
        /\ req[p].via = "http" /\ Done(p) /\ req[p].tpl = TplMalformed
        /\ resp[p] = [code |-> 400, body |-> "Unable to format title template"]
        /\ Entered(q) /\ Done(q) /\ outcome[q] = "Error"
        /\ resp[q] = [code |-> 500, body |-> "Error"]
        /\ errors = 1 /\ raised = 1

\* C13: the answer to a write is checked: a create whose answer carries no
\* object ends with the error "Failed to create task" and not Created, an
\* update whose answer echoes fewer transactions than were sent ends with the
\* error "Failed to apply all transactions for task" naming the task and not
\* Updated, whether or not the tracker applied the write; with the object, or
\* with all transactions echoed, they end Created and Updated.
C13_WriteAcknowledged ==
    \A p \in Procs :
        (Done(p) /\ EditCalls(calls[p]) # <<>>) =>
            LET c == EditCalls(calls[p])[1]
            IN /\ ack[p] # NoAck
               /\ IF c.objectIdentifier = NoObject
                  THEN IF ack[p].object = NoObject
                       THEN /\ outcome[p] = "Error"
                            /\ errmsg[p].text = "Failed to create task"
                       ELSE outcome[p] = "Created"
                  ELSE ack[p].hasTransactions =>
                       IF ack[p].echoed < Len(c.transactions)
                       THEN /\ outcome[p] = "Error"
                            /\ errmsg[p] = Msg("Failed to apply all transactions for task",
                                               <<>>, c.objectIdentifier)
                       ELSE outcome[p] = "Updated"

\* C13 witness: the tracker created the task and answered without an object;
\* the invocation ended with the error, and the task is there.
C13_Witness ==
    \E p \in Procs :
        /\ Done(p) /\ nreq = 1 /\ ack[p] = EmptyResponse
        /\ outcome[p] = "Error" /\ errmsg[p].text = "Failed to create task"
        /\ Len(tasks) = 1 /\ tasks[1].name = req[p].title

\* The page a task search for p's title and ids gets in the current state of
\* the tracker, with a cursor.
PageFor(p, prefilter, after) ==
    [data |-> ManiphestSearchData(tasks, req[p].title, phids[p], prefilter),
     after |-> after]

\* C14: for the search an invocation is about to make, an answer with a
\* non-empty 'after' cursor makes find_task and find_project_phid raise their
\* cursor error whatever the page holds, also a page from which they return a
\* match when the cursor is empty; and an
\* invocation that got that error has ended without a located task, without a
\* further call and without a write.
C14_SinglePage ==
    \A p \in Procs :
        /\ pc[p] = "find" =>
             \A prefilter \in BOOLEAN :
                /\ find_task(PageFor(p, prefilter, "100"), req[p].title, phids[p])
                     = Raised("Error", Msg(TaskCursorText, req[p].title, NoObject), NoTask)
                /\ find_task(PageFor(p, prefilter, NoCursor), req[p].title, phids[p]).raised = ""
        /\ pc[p] = "resolve" =>
             LET name == req[p].projects[Len(calls[p]) + 1]
             IN find_project_phid([data |-> ProjectSearchData(name), after |-> "100"], name)
                  = Raised("Error", Msg(ProjectCursorText, name, NoObject), "")
        /\ errmsg[p].text = TaskCursorText
           => /\ Done(p) /\ outcome[p] = "Error" /\ task[p] = NoTask
              /\ EditCalls(calls[p]) = <<>>
              /\ calls[p][Len(calls[p])].api = "maniphest.search"
        /\ errmsg[p].text = ProjectCursorText
           => /\ Done(p) /\ outcome[p] = "Error" /\ task[p] = NoTask
              /\ \A i \in 1..Len(calls[p]) : calls[p][i].api = "project.search"
              /\ calls[p][Len(calls[p])] = ProjectSearchCall(errmsg[p].name)
              /\ Len(phids[p]) = Len(req[p].phids) + Len(calls[p]) - 1

\* C14 witness: the page of the task search held a task with the requested
\* title and description, the cursor was not empty, and the invocation ended
\* with the cursor error and no write; the other invocation got the cursor
\* error for a project that exists.
C14_Witness ==
    \E p, q \in Procs :
        /\ Done(p) /\ errmsg[p].text = TaskCursorText
        /\ \E i \in 1..Len(cands[p]) :
             /\ cands[p][i].name = req[p].title
             /\ Range(phids[p]) \subseteq cands[p][i].projects
        /\ EditCalls(calls[p]) = <<>>
        /\ Done(q) /\ errmsg[q] = Msg(ProjectCursorText, FOOBAR, NoObject)

\* The project searches of p's invocation, one per name, in list order.
ProjectSearches(p) ==
    [i \in 1..Len(req[p].projects) |-> ProjectSearchCall(req[p].projects[i])]

\* The task search of p's invocation.
TaskSearchOf(p) == ManiphestSearchCall(req[p].title, phids[p])

\* C15: the calls an invocation has issued are, at every moment, a prefix of:
\* one project search per name in list order, then one task search, then at
\* most one maniphest.edit.  The task search comes only after all names; a
\* write only after the task search; an invocation that ended with an error
\* stopped at the call that failed (the k-th project search, the task search,
\* or the write), and one that ended normally issued the task search once and
\* the write at most once.
C15_CallTrace ==
    \A p \in Procs :
        LET ps == ProjectSearches(p)
            k == Len(phids[p]) - Len(req[p].phids)
            failed == outcome[p] \in {"Error", "KeyError"}
            n == Len(calls[p])
        IN /\ pc[p] = "resolve" => k < Len(ps) /\ calls[p] = SubSeq(ps, 1, k)
           /\ pc[p] = "find" => calls[p] = ps
           /\ pc[p] \in {"create", "update"} => calls[p] = ps \o <<TaskSearchOf(p)>>
           /\ (Done(p) /\ outcome[p] # "") =>
                \/ /\ failed /\ k < Len(ps)
                   /\ calls[p] = SubSeq(ps, 1, k + 1)
                   /\ errmsg[p].name = req[p].projects[k + 1]
                \/ /\ failed /\ errmsg[p].text = TaskCursorText
                   /\ calls[p] = ps \o <<TaskSearchOf(p)>>
                \/ /\ outcome[p] = "Unchanged"
                   /\ calls[p] = ps \o <<TaskSearchOf(p)>>
                \/ /\ errmsg[p].text # TaskCursorText /\ k = Len(ps)
                   /\ n = Len(ps) + 2
                   /\ SubSeq(calls[p], 1, n - 1) = ps \o <<TaskSearchOf(p)>>
                   /\ calls[p][n].api = "maniphest.edit"
           /\ (Done(p) /\ outcome[p] = "") => calls[p] = <<>>

\* C15 witness: the second of two names failed to resolve after the first had
\* resolved, and the other invocation went through both searches and a write.
C15_Witness ==
    \E p, q \in Procs :
        /\ Done(p) /\ outcome[p] = "Error"
        /\ calls[p] = <<ProjectSearchCall(FOOBAR), ProjectSearchCall(EXTRA)>>
        /\ Done(q) /\ outcome[q] = "Created"
        /\ Len(calls[q]) = 3
        /\ calls[q][1] = ProjectSearchCall(FOOBAR)
        /\ calls[q][2] = ManiphestSearchCall(req[q].title, <<"PHID-12">>)
        /\ calls[q][3].api = "maniphest.edit"

\* The task a create of p adds to the tracker.
CreatedBy(p) ==
    [id |-> Len(tasks) + 1, phid |-> TaskPhid(Len(tasks) + 1),
     name |-> req[p].title, desc |-> req[p].description,
     status |-> "open", projects |-> Range(phids[p])]

\* C16: no step removes a task or changes the id, phid, title, status or
\* projects of a task; a step that changes the tracker is either the create of
\* an invocation, which appends one open task with its title, description and
\* merged ids, or the update of an invocation, which replaces the description
\* of the one task it located, and that task has the requested title and has
\* the required ids among its projects; every other task stays as it is.
C16_Frame ==
    [][ /\ Len(tasks') >= Len(tasks)
        /\ \A i \in 1..Len(tasks) :
             /\ tasks'[i].id = tasks[i].id /\ tasks'[i].phid = tasks[i].phid
             /\ tasks'[i].name = tasks[i].name /\ tasks'[i].status = tasks[i].status
             /\ tasks'[i].projects = tasks[i].projects
        /\ tasks' # tasks =>
             \E p \in Procs :
                \/ /\ pc[p] = "create" /\ pc'[p] = "done"
                   /\ tasks' = Append(tasks, CreatedBy(p))
                \/ /\ pc[p] = "update" /\ pc'[p] = "done"
                   /\ \E i \in 1..Len(tasks) :
                        /\ tasks[i].phid = task[p].phid
                        /\ tasks[i].name = req[p].title
                        /\ Range(phids[p]) \subseteq tasks[i].projects
                        /\ tasks' = [tasks EXCEPT ![i].desc = req[p].description]
      ]_vars

\* C16 witness: a task titled "X extra" and a task titled "X" exist, an
\* invocation for "X" has updated the second one, and the first one still has
\* the description it was created with.
C16_Witness ==
    \E p \in Procs :
        /\ Done(p) /\ outcome[p] = "Updated" /\ req[p].title = TX
        /\ Len(tasks) = 2
        /\ tasks[1].name = TXE /\ tasks[1].desc = D1 /\ tasks[1].status = "open"
        /\ tasks[2].name = TX /\ tasks[2].desc = D2 /\ tasks[2].phid = task[p].phid
        /\ req[p].description = D2

\* The id of the project that has exactly this name.
ExactPhid(name) ==
    TrackerProjects[CHOOSE i \in 1..Len(TrackerProjects) : TrackerProjects[i].name = name].phid

\* The supplied ids followed by the ids of the first k names.
Merged(p, k) == req[p].phids \o [i \in 1..k |-> ExactPhid(req[p].projects[i])]

\* C17: process_task's list of ids is the supplied ids followed by the id of
\* each name resolved so far, in list order; the task search and the create
\* are made with the list of all names; the create carries title, description
\* and, only when that list is not empty, one projects.add of exactly that
\* list; and the task it creates has exactly those projects.
C17_GroupMerge ==
    \A p \in Procs :
        LET k == Len(phids[p]) - Len(req[p].phids)
            all == Merged(p, Len(req[p].projects))
        IN /\ req[p].via # "" => k >= 0 /\ phids[p] = Merged(p, k)
           /\ \A i \in 1..Len(calls[p]) :
                /\ calls[p][i].api = "maniphest.search"
                   => calls[p][i] = ManiphestSearchCall(req[p].title, all)
                /\ (calls[p][i].api = "maniphest.edit" /\ calls[p][i].objectIdentifier = NoObject)
                   => calls[p][i].transactions =
                        IF all = <<>>
                        THEN << [type |-> "title", value |-> req[p].title],
                                [type |-> "description", value |-> req[p].description] >>
                        ELSE << [type |-> "title", value |-> req[p].title],
                                [type |-> "description", value |-> req[p].description],
                                [type |-> "projects.add", value |-> all] >>
           /\ (Done(p) /\ outcome[p] = "Created")
              => \E i \in 1..Len(tasks) :
                    /\ tasks[i].phid = ack[p].object
                    /\ tasks[i].projects = Range(all)

\* C17 witness: process_task("X", D1, ["foobar"], ["PHID-11"]) has created a
\* task with projects.add [PHID-11, PHID-12], and process_task("X", D1, [], [])
\* has created one with no projects.add.
C17_Witness ==
    \E p, q \in Procs :
        /\ Done(p) /\ outcome[p] = "Created"
        /\ req[p].projects = <<FOOBAR>> /\ req[p].phids = <<"PHID-11">>
        /\ phids[p] = <<"PHID-11", "PHID-12">>
        /\ Len(calls[p][3].transactions) = 3
        /\ calls[p][3].transactions[3] =
             [type |-> "projects.add", value |-> <<"PHID-11", "PHID-12">>]
        /\ Done(q) /\ outcome[q] = "Created" /\ phids[q] = <<>>
        /\ Len(calls[q][2].transactions) = 2

\* The places, in the page p's task search returned, of the candidates that
\* have the requested title and all the required ids.
Passing(p) ==
    { i \in 1..Len(cands[p]) : /\ cands[p][i].name = req[p].title
                               /\ Range(phids[p]) \subseteq cands[p][i].projects }

\* C18: what find_task returned is the candidate at the first passing place of
\* the page, in the page's order, and none when no place passes; the update of
\* the invocation, if any, is the only write and is on that candidate, however
\* many candidates pass.
C18_FirstCandidate ==
    \A p \in Procs :
        Located(p) =>
            /\ IF Passing(p) = {}
               THEN task[p] = NoTask
               ELSE \E i \in Passing(p) :
                      /\ \A j \in Passing(p) : i <= j
                      /\ task[p] = cands[p][i]
            /\ \A i \in 1..Len(calls[p]) :
                 (calls[p][i].api = "maniphest.edit" /\ Passing(p) # {})
                 => /\ calls[p][i].objectIdentifier = task[p].phid
                    /\ Len(EditCalls(calls[p])) = 1

\* C18 witness: two open tasks with the requested title were both on the page,
\* the newer one first; the invocation took the first one and updated it, and
\* the other one keeps its description.
C18_Witness ==
    \E p \in Procs :
        /\ Done(p) /\ outcome[p] = "Updated"
        /\ Len(cands[p]) = 2 /\ Passing(p) = {1, 2}
        /\ task[p] = cands[p][1]
        /\ cands[p][1].id > cands[p][2].id
        /\ tasks[cands[p][1].id].desc = req[p].description
        /\ tasks[cands[p][2].id].desc # req[p].description

\* The page of a project search for name, its candidates in the order perm.
ProjectPage(name, perm) ==
    [data |-> [i \in 1..Len(perm) |-> ProjectSearchData(name)[perm[i]]],
     after |-> NoCursor]

\* C19: for the name an invocation is about to resolve and every order of the
\* candidates the search for it returns, find_project_phid returns the id of
\* the project that
\* has exactly that name, and raises "Could not find project" naming it when
\* none has; so every id process_task has appended belongs to a project with
\* exactly the name it was resolved for, and an invocation ended with that
\* error only for a name no project has.
C19_ExactName ==
    \A p \in Procs :
        /\ pc[p] = "resolve" =>
             LET name == req[p].projects[Len(calls[p]) + 1]
             IN \A perm \in Perms(ProjectSearchData(name)) :
                  find_project_phid(ProjectPage(name, perm), name) =
                     IF Resolvable(name)
                     THEN Returned(ExactPhid(name))
                     ELSE Raised("Error", Msg("Could not find project", name, NoObject), "")
        /\ \A i \in 1..(Len(phids[p]) - Len(req[p].phids)) :
             \E j \in 1..Len(TrackerProjects) :
                /\ TrackerProjects[j].name = req[p].projects[i]
                /\ TrackerProjects[j].phid = phids[p][Len(req[p].phids) + i]
        /\ errmsg[p].text = "Could not find project" => ~Resolvable(errmsg[p].name)

\* C19 witness: "foobar" was resolved to PHID-12 from a page that also held
\* "foobar-extra", and "extra" was not found although the page of its search
\* held "foobar-extra".
C19_Witness ==
    \E p, q \in Procs :
        /\ req[p].projects = <<FOOBAR>> /\ phids[p] = <<"PHID-12">>
        /\ Len(ProjectSearchData(FOOBAR)) = 2
        /\ Done(q) /\ errmsg[q] = Msg("Could not find project", EXTRA, NoObject)
        /\ ProjectSearchData(EXTRA) # <<>>

\* The step of thread p from stage a to stage b.
Step(p, a, b) == pc[p] = a /\ pc'[p] = b

\* What the search step, the create step and the steps of everybody leave of
\* C20 when the update is set aside: the search returns only tasks that are
\* open, and with no open task of the title and ids it returns none and the
\* invocation goes on to create; the create changes no existing task.
SearchAndCreateOnlyOpen(p) ==
    /\ (pc[p] = "find" /\ pc'[p] # "find") =>
         /\ \A i \in 1..Len(cands'[p]) : cands'[p][i].status = "open"
         /\ task'[p] # NoTask =>
              \E i \in 1..Len(tasks) : tasks[i] = task'[p] /\ tasks[i].status = "open"
         /\ ( /\ errmsg'[p].text # TaskCursorText
              /\ OpenMatches(req[p].title, Range(phids[p])) = {} )
            => task'[p] = NoTask /\ pc'[p] = "create"
    /\ Step(p, "create", "done") =>
         /\ outcome'[p] \in {"Created", "Error"}
         /\ \A i \in 1..Len(tasks) : tasks'[i] = tasks[i]

\* C20, as stated: besides, no step of an invocation changes a task that is
\* closed.
C20_AsStated ==
    [][ \A p \in Procs :
          /\ SearchAndCreateOnlyOpen(p)
          /\ Step(p, "update", "done") =>
               \A i \in 1..Len(tasks) : tasks[i].status = "closed" => tasks'[i] = tasks[i]
      ]_vars

\* C20, amended: besides, the update changes only the task the invocation
\* located, which was open when it was located (it may have been closed by
\* somebody else since, and is updated all the same).
C20_OnlyOpen ==
    [][ \A p \in Procs :
          /\ SearchAndCreateOnlyOpen(p)
          /\ Step(p, "update", "done") =>
               /\ task[p].status = "open"
               /\ \A i \in 1..Len(tasks) :
                    tasks[i].phid # task[p].phid => tasks'[i] = tasks[i]
      ]_vars

\* C20 witness: the only task with the title and ids was closed when the
\* invocation searched: the page was empty, the invocation created a second
\* task, and the closed one still has its description.
C20_Witness ==
    \E p \in Procs :
        /\ Done(p) /\ outcome[p] = "Created"
        /\ locLen[p] = 1 /\ cands[p] = <<>> /\ Len(tasks) = 2
        /\ tasks[1].status = "closed" /\ tasks[1].name = req[p].title
        /\ Range(phids[p]) \subseteq tasks[1].projects
        /\ tasks[1].desc = D1 /\ req[p].description = D2
        /\ tasks[2].status = "open" /\ tasks[2].desc = D2

\* --------------------------------------------------------------------- C21

\* b holds the alerts of a in another order (or the same).
Reordered(a, b) ==
    /\ Len(a) = Len(b)
    /\ \E f \in Perms(a) : b = [i \in 1..Len(a) |-> a[f[i]]]

\* C21, as stated: for the alerts of a request that went into process_task,
\* the sort gives the same sequence for every order of them; and a request
\* that brings the alerts of the request before it in another order, for the
\* same title and groups, after that one ended Created and with no other
\* change to the tracker, was handed the same description, issues no
\* maniphest.edit and ends Unchanged (or with the error of a search that
\* signals more pages).
C21_OrderInvariance ==
    \A p \in Procs :
        Entered(p) =>
          /\ \A f \in Perms(req[p].alerts) :
               SortAlerts([i \in 1..Len(req[p].alerts) |-> req[p].alerts[f[i]]])
                 = SortAlerts(req[p].alerts)
          /\ ( /\ Done(p) /\ Follows(p)
               /\ pred[p].outcome = "Created"
               /\ Reordered(pred[p].alerts, req[p].alerts) )
             => /\ req[p].description = pred[p].description
                /\ EditCalls(calls[p]) = <<>>
                /\ \/ outcome[p] = "Unchanged" /\ task[p].phid = pred[p].target
                   \/ outcome[p] = "Error" /\ Paginated(p)

\* --------------------------------------------------------------------- C22

\* The ids process_task searches with for the group that is being redelivered.
GroupPhids ==
    universe.groups.phids
      \o [i \in 1..Len(universe.groups.projects) |-> ExactPhid(universe.groups.projects[i])]

\* A locate for the group returns a ticket, and that ticket's description is D1.
Canonical ==
    \A prefilter \in BOOLEAN :
        /\ Locate(TX, GroupPhids, prefilter) # NoTask
        /\ Locate(TX, GroupPhids, prefilter).desc = D1

\* A delivery ends in this step.
Ends(p) == pc[p] # "done" /\ pc'[p] = "done"

\* C22: when one alert group (title TX, description D1, one set of groups)
\* is delivered again and again, only the first MaxUnsettled deliveries carry
\* another description or see the tracker answer with an error, and deliveries
\* may overlap, then from some point on a locate for the group always returns
\* a ticket with description D1, from some point on every delivery that ends
\* ends Unchanged without having issued a maniphest.edit, and deliveries keep
\* ending so.
C22_Convergence ==
    /\ <>[]Canonical
    /\ <>[][\A p \in Procs :
               Ends(p) => outcome'[p] = "Unchanged" /\ EditCalls(calls'[p]) = <<>>]_vars
    /\ []<>(\E p \in Procs : Done(p) /\ outcome[p] = "Unchanged" /\ Canonical)

\* C22 witness: the deliveries have settled after two overlapping ones each
\* created a ticket, the older ticket still holds D2, a locate returns the newer
\* one with D1, and a delivery of D1 has ended Unchanged after another that
\* ended Unchanged.
C22_Witness ==
    /\ Settled /\ Canonical
    /\ Len(tasks) = 2 /\ tasks[1].desc = D2 /\ tasks[2].desc = D1
    /\ \E p \in Procs :
         /\ Done(p) /\ Follows(p)
         /\ req[p].description = D1
         /\ pred[p].outcome = "Unchanged"
         /\ outcome[p] = "Unchanged" /\ EditCalls(calls[p]) = <<>>

====
